---- MODULE Spec2Model ----
(***************************************************************************)
(* Model of notebooks/dados_entrada.py: the pipeline main ->               *)
(* processar_dados -> gerar_relatorio_completo ->                          *)
(* exportar_estatisticas_detalhadas over one in-memory table (df).         *)
(*                                                                         *)
(* A cell of the table is a record [k, s, n, d]:                           *)
(*   k = "null"  NaN / NaT / None (pandas treats them alike in isna,       *)
(*               duplicated and groupby)                                   *)
(*   k = "str"   a text value s (object dtype)                             *)
(*   k = "num"   the number n/d, d > 0, in lowest terms                    *)
(*   k = "date"  a timestamp, n = year*10000 + month*100 + day             *)
(* Numbers are exact rationals: float rounding is not modelled.            *)
(***************************************************************************)
EXTENDS Integers, Sequences, FiniteSets, TLC

VARIABLES arquivo, pc, colunas, tipos, df, secoes, estatisticas,
          crescimento_total, crescimentos, top_anos, top_meses,
          relatorio, arquivos, falhas, invocadas, retorno, banner, excecao

vars == <<arquivo, pc, colunas, tipos, df, secoes, estatisticas,
          crescimento_total, crescimentos, top_anos, top_meses,
          relatorio, arquivos, falhas, invocadas, retorno, banner, excecao>>

(* ------------------------------ bounds -------------------------------- *)
\* longest input table of the general family
MaxRows == 3
\* longest input table of the one-year-per-row family
MaxRankRows == 6

(* ------------------------------- cells -------------------------------- *)
Null == [k |-> "null", s |-> "", n |-> 0, d |-> 1]

Str(t) == [k |-> "str", s |-> t, n |-> 0, d |-> 1]

Abs(a) == IF a < 0 THEN -a ELSE a

RECURSIVE GCD(_, _)
GCD(a, b) == IF b = 0 THEN a ELSE GCD(b, a % b)

\* the rational a/b (b # 0) in lowest terms with a positive denominator
Num(a, b) ==
    LET g  == GCD(Abs(a), Abs(b))
        sg == IF b < 0 THEN -1 ELSE 1
    IN [k |-> "num", s |-> "", n |-> sg * (a \div g), d |-> Abs(b) \div g]

Int2Num(a) == [k |-> "num", s |-> "", n |-> a, d |-> 1]

Date(y, m, dd) == [k |-> "date", s |-> "", n |-> y * 10000 + m * 100 + dd, d |-> 1]

IsNull(c) == c.k = "null"

RAdd(a, b) == Num(a.n * b.d + b.n * a.d, a.d * b.d)

RSub(a, b) == Num(a.n * b.d - b.n * a.d, a.d * b.d)

RMul(a, b) == Num(a.n * b.n, a.d * b.d)

\* a / b for b # 0
RDiv(a, b) == Num(a.n * b.d, a.d * b.n)

RLt(a, b) == a.n * b.d < b.n * a.d

Zero == Int2Num(0)

(* --------------------------- column names ----------------------------- *)
\* str.strip().str.lower() on the header names that occur in the inputs
StripLower(nome) ==
    CASE nome = "Data "  -> "data"
      [] nome = " VALOR" -> "valor"
      [] nome = "Orgao"  -> "orgao"
      [] OTHER           -> nome

(* ------------------------- text of the inputs ------------------------- *)
Pad2(i) == IF i < 10 THEN "0" \o ToString(i) ELSE ToString(i)

\* the date text of row family member i: 1st of month i of year 2010 + i
RankTok(i) == "01/" \o Pad2(i) \o "/" \o ToString(2010 + i)

\* the text of a number column cell: int(text), float(text)
NumLex == ("100" :> 100) @@ ("-50" :> -50)

\* the three fields <<day, month, year>> the pattern %d/%m/%Y reads from a
\* text; <<>> when the text does not have that shape
DateFields(t) ==
    CASE t = "01/01/2020" -> <<1, 1, 2020>>
      [] t = "1/1/2020"   -> <<1, 1, 2020>>
      [] t = "15/06/2021" -> <<15, 6, 2021>>
      [] t = "31/02/2021" -> <<31, 2, 2021>>
      [] \E i \in 1..12 : t = RankTok(i) ->
            LET i == CHOOSE j \in 1..12 : t = RankTok(j) IN <<1, i, 2010 + i>>
      [] OTHER -> <<>>

IsLeap(y) == (y % 4 = 0 /\ y % 100 # 0) \/ y % 400 = 0

DaysIn(m, y) ==
    CASE m = 2 -> IF IsLeap(y) THEN 29 ELSE 28
      [] m \in {4, 6, 9, 11} -> 30
      [] OTHER -> 31

\* pd.to_datetime(text, format='%d/%m/%Y', errors='coerce') of one text
StrpTime(t) ==
    LET f == DateFields(t) IN
    IF f = <<>> THEN Null
    ELSE IF f[2] \in 1..12 /\ f[1] \in 1..DaysIn(f[2], f[3])
         THEN Date(f[3], f[2], f[1])
         ELSE Null

Year(c) == c.n \div 10000

Month(c) == (c.n \div 100) % 100

\* strftime('%b') in the C locale
MonthAbbr(m) ==
    <<"Jan", "Feb", "Mar", "Apr", "May", "Jun",
      "Jul", "Aug", "Sep", "Oct", "Nov", "Dec">>[m]

(* ------------------------------ tables -------------------------------- *)
\* a table is a sequence of rows, a row a sequence of cells aligned with the
\* sequence of column names
HasCol(cols, c) == \E j \in 1..Len(cols) : cols[j] = c

Idx(cols, c) == CHOOSE j \in 1..Len(cols) : cols[j] = c

\* df[c] as a sequence of cells
Col(cols, t, c) == [i \in 1..Len(t) |-> t[i][Idx(cols, c)]]

NotNull(col) == SelectSeq(col, LAMBDA c : ~IsNull(c))

RECURSIVE SumSeq(_)
\* Series.sum(): nulls are skipped, the empty sum is 0
SumSeq(col) ==
    IF col = <<>> THEN Zero
    ELSE IF IsNull(Head(col)) THEN SumSeq(Tail(col))
         ELSE RAdd(Head(col), SumSeq(Tail(col)))

\* Mean with the nulls counted in the denominator
MeanAllRows(col) ==
    IF NotNull(col) = <<>> THEN Null
    ELSE RDiv(SumSeq(col), Int2Num(Len(col)))

\* Series.mean(): NaN when no value is left after skipping nulls
Mean(col) ==
    IF NotNull(col) = <<>> THEN Null
    ELSE RDiv(SumSeq(col), Int2Num(Len(NotNull(col))))

\* Series.count()
Count(col) == Len(NotNull(col))

\* df.isnull().sum().sum()
CountNulls(t) ==
    LET RECURSIVE Go(_)
        Go(i) == IF i > Len(t) THEN 0
                 ELSE Len(SelectSeq(t[i], IsNull)) + Go(i + 1)
    IN Go(1)

(* ------------------------------ read_csv ------------------------------ *)
\* dtype inference of one column from its texts
InferType(toks) ==
    IF Len(toks) = 0 THEN "object"
    ELSE IF \A i \in 1..Len(toks) : toks[i] = "" \/ toks[i] \in DOMAIN NumLex
         THEN "number"
         ELSE "object"

ParseCell(tok, tipo) ==
    IF tok = "" THEN Null
    ELSE IF tipo = "number" THEN Int2Num(NumLex[tok])
         ELSE Str(tok)

ReadTipos(header, linhas) ==
    [j \in 1..Len(header) |->
        InferType([i \in 1..Len(linhas) |-> linhas[i][j]])]

\* pd.read_csv(arquivo_entrada, sep=';', thousands=',')
ReadCsv(header, linhas) ==
    [i \in 1..Len(linhas) |->
        [j \in 1..Len(header) |-> ParseCell(linhas[i][j], ReadTipos(header, linhas)[j])]]

(* ------------------------------- inputs ------------------------------- *)
DataToks == {"01/01/2020", "15/06/2021", "xx", ""}

\* further texts of the one-column tables
DataToksSolo == DataToks \cup {"1/1/2020", "31/02/2021"}

ValorToks == {"100", "-50", "x", ""}

RankValorToks == {"100", "-50"}

SeqsUpTo(S, n) == UNION {[1..k -> S] : k \in 0..n}

\* tables of at most MaxRows rows under each header
GeneralFiles ==
    {[estado |-> "ok", header |-> <<"data", "valor">>, linhas |-> l] :
        l \in SeqsUpTo({<<a, b>> : a \in DataToks, b \in ValorToks}, MaxRows)}
    \cup {[estado |-> "ok", header |-> h, linhas |-> l] :
        h \in {<<"data">>, <<"Data ">>},
        l \in SeqsUpTo({<<a>> : a \in DataToksSolo}, MaxRows)}
    \cup {[estado |-> "ok", header |-> h, linhas |-> l] :
        h \in {<<"valor">>, <<" VALOR">>},
        l \in SeqsUpTo({<<b>> : b \in ValorToks}, MaxRows)}
    \cup {[estado |-> "ok", header |-> h, linhas |-> l] :
        h \in {<<"orgao">>, <<"Orgao">>},
        l \in SeqsUpTo({<<"A">>, <<"">>}, MaxRows)}

\* tables whose row i is dated in year 2010 + i or 2011 + i
RankFiles ==
    {[estado |-> "ok", header |-> <<"data", "valor">>,
      linhas |-> [i \in 1..Len(f) |-> <<RankTok(i + f[i][1]), f[i][2]>>]] :
        f \in UNION {[1..k -> {0, 1} \X RankValorToks] : k \in 1..MaxRankRows}}

\* the file is absent, or present and not parseable
BadFiles ==
    {[estado |-> e, header |-> <<>>, linhas |-> <<>>] : e \in {"ausente", "ilegivel"}}

(* ------------------------- cleaning operators ------------------------- *)
\* df[coluna].fillna(media, inplace=True)
FillNa(t, j, media) ==
    [i \in 1..Len(t) |-> IF IsNull(t[i][j]) THEN [t[i] EXCEPT ![j] = media] ELSE t[i]]

RECURSIVE FillColumns(_, _, _)
\* the loop over df.select_dtypes(include=[np.number]).columns, from column j on
FillColumns(tps, t, j) ==
    IF j > Len(tps) THEN t
    ELSE IF tps[j] = "number"
         THEN LET media == Mean([i \in 1..Len(t) |-> t[i][j]])
              IN FillColumns(tps, IF ~IsNull(media) THEN FillNa(t, j, media) ELSE t, j + 1)
         ELSE FillColumns(tps, t, j + 1)

\* step 3: fill only when the table holds some null
TratarNulos(tps, t) == IF CountNulls(t) > 0 THEN FillColumns(tps, t, 1) ELSE t

\* df.duplicated(): row i repeats an earlier row
Duplicated(t, i) == \E h \in 1..(i - 1) : t[h] = t[i]

\* drop_duplicates(keep=False): every row that occurs more than once is dropped
DropDuplicatesKeepNone(t) ==
    SelectSeq(t, LAMBDA r : Len(SelectSeq(t, LAMBDA q : q = r)) = 1)

\* df.drop_duplicates(): the first occurrence of every row, in order
DropDuplicates(t) ==
    LET RECURSIVE Go(_)
        Go(i) == IF i > Len(t) THEN <<>>
                 ELSE IF Duplicated(t, i) THEN Go(i + 1)
                      ELSE <<t[i]>> \o Go(i + 1)
    IN Go(1)

\* pd.to_datetime(df['data'], format='%d/%m/%Y', errors='coerce') of one cell
ToDatetime(c) == IF c.k = "str" THEN StrpTime(c.s) ELSE Null

\* pd.to_numeric(df['valor'], errors='coerce') of one cell
ToNumeric(c) ==
    CASE c.k = "num" -> c
      [] c.k = "str" /\ c.s \in DOMAIN NumLex -> Int2Num(NumLex[c.s])
      [] OTHER -> Null

\* df['data'] = pd.to_datetime(df['data'], ...)
CoerceData(cols, t) ==
    [i \in 1..Len(t) |-> [t[i] EXCEPT ![Idx(cols, "data")] = ToDatetime(t[i][Idx(cols, "data")])]]

\* df['valor'] = pd.to_numeric(df['valor'], ...)
CoerceValor(cols, t) ==
    [i \in 1..Len(t) |-> [t[i] EXCEPT ![Idx(cols, "valor")] = ToNumeric(t[i][Idx(cols, "valor")])]]

SetTipo(cols, tps, c, tp) == [tps EXCEPT ![Idx(cols, c)] = tp]

\* .dt.year, .dt.month, .dt.strftime('%b'), .dt.strftime('%Y-%m') of one cell
DtYear(c) == IF IsNull(c) THEN Null ELSE Int2Num(Year(c))

DtMonth(c) == IF IsNull(c) THEN Null ELSE Int2Num(Month(c))

DtMonthName(c) == IF IsNull(c) THEN Null ELSE Str(MonthAbbr(Month(c)))

DtYearMonth(c) == IF IsNull(c) THEN Null ELSE Str(ToString(Year(c)) \o "-" \o Pad2(Month(c)))

\* step 5: coercion of data and of valor, then the derived calendar columns
Padronizar(cols, tps, t) ==
    LET temData  == HasCol(cols, "data")
        temValor == HasCol(cols, "valor")
        t1   == IF temData THEN CoerceData(cols, t) ELSE t
        tps1 == IF temData THEN SetTipo(cols, tps, "data", "datetime") ELSE tps
        t2   == IF temValor THEN CoerceValor(cols, t1) ELSE t1
        tps2 == IF temValor THEN SetTipo(cols, tps1, "valor", "number") ELSE tps1
        deriva == temValor /\ temData /\ NotNull(Col(cols, t2, "data")) # <<>>
    IN IF deriva
       THEN [cols |-> cols \o <<"ano", "mes", "mes_nome", "mes_ano">>,
             tps  |-> tps2 \o <<"number", "number", "object", "object">>,
             t    |-> [i \in 1..Len(t2) |->
                         LET dt == t2[i][Idx(cols, "data")]
                         IN t2[i] \o <<DtYear(dt), DtMonth(dt), DtMonthName(dt), DtYearMonth(dt)>>]]
       ELSE [cols |-> cols, tps |-> tps2, t |-> t2]

(* ------------------------- analysis operators ------------------------- *)
RECURSIVE SortInts(_)
\* sorted(...) of a set of integers
SortInts(S) ==
    IF S = {} THEN <<>>
    ELSE LET m == CHOOSE x \in S : \A y \in S : x <= y
         IN <<m>> \o SortInts(S \ {m})

\* sorted(df['ano'].dropna().unique()); also the group keys of groupby('ano')
AnosUnicos(cols, t) ==
    SortInts({t[i][Idx(cols, "ano")].n : i \in {h \in 1..Len(t) : ~IsNull(t[h][Idx(cols, "ano")])}})

\* month abbreviations in the order groupby('mes_nome') sorts its keys
AlphaMonths ==
    <<"Apr", "Aug", "Dec", "Feb", "Jan", "Jul", "Jun", "Mar", "May", "Nov", "Oct", "Sep">>

MesesUnicos(cols, t) ==
    SelectSeq(AlphaMonths,
              LAMBDA m : \E i \in 1..Len(t) : t[i][Idx(cols, "mes_nome")] = Str(m))

\* df[df[c] == chave]['valor']
ValoresDe(cols, t, c, chave) ==
    Col(cols, SelectSeq(t, LAMBDA r : r[Idx(cols, c)] = chave), "valor")

\* df.groupby('ano')['valor'].sum()
SomaPorAno(cols, t) ==
    LET anos == AnosUnicos(cols, t)
    IN [h \in 1..Len(anos) |->
          [chave |-> Int2Num(anos[h]),
           valor |-> SumSeq(ValoresDe(cols, t, "ano", Int2Num(anos[h])))]]

\* df.groupby('mes_nome')['valor'].mean()
MediaPorMes(cols, t) ==
    LET meses == MesesUnicos(cols, t)
    IN [h \in 1..Len(meses) |->
          [chave |-> Str(meses[h]),
           valor |-> Mean(ValoresDe(cols, t, "mes_nome", Str(meses[h])))]]

\* position of the entry nlargest takes next: the largest value, the first
\* of equal values
ArgMax(serie) ==
    CHOOSE i \in 1..Len(serie) :
        /\ \A h \in 1..Len(serie) : ~RLt(serie[i].valor, serie[h].valor)
        /\ \A h \in 1..(i - 1) : RLt(serie[h].valor, serie[i].valor)

Remove(s, i) == SubSeq(s, 1, i - 1) \o SubSeq(s, i + 1, Len(s))

RECURSIVE SortDesc(_)
SortDesc(serie) ==
    IF serie = <<>> THEN <<>>
    ELSE <<serie[ArgMax(serie)]>> \o SortDesc(Remove(serie, ArgMax(serie)))

Take(s, n) == SubSeq(s, 1, IF n < Len(s) THEN n ELSE Len(s))

\* nlargest without the cut at n entries
NLargestSemLimite(serie, n) ==
    SortDesc(SelectSeq(serie, LAMBDA e : ~IsNull(e.valor)))
        \o SelectSeq(serie, LAMBDA e : IsNull(e.valor))

\* Series.nlargest(n): descending values, equal values in series order,
\* NaN entries after all numbers, at most n entries
NLargest(serie, n) ==
    Take(SortDesc(SelectSeq(serie, LAMBDA e : ~IsNull(e.valor)))
            \o SelectSeq(serie, LAMBDA e : IsNull(e.valor)), n)

\* ((atual - anterior) / anterior) * 100
Crescimento(atual, anterior) == RMul(RDiv(RSub(atual, anterior), anterior), Int2Num(100))

RECURSIVE CrescimentoAnoAAnoAtual(_, _)
\* the loop with the guard on the current year's sum instead of the previous
CrescimentoAnoAAnoAtual(soma, i) ==
    IF i > Len(soma) THEN <<>>
    ELSE (IF RLt(Zero, soma[i].valor) /\ soma[i - 1].valor # Zero
          THEN <<[de |-> soma[i - 1].chave, para |-> soma[i].chave,
                  taxa |-> Crescimento(soma[i].valor, soma[i - 1].valor)]>>
          ELSE <<>>)
         \o CrescimentoAnoAAnoAtual(soma, i + 1)

RECURSIVE CrescimentoAnoAAnoBreak(_, _)
\* the loop leaving at the first pair whose previous sum is not positive
CrescimentoAnoAAnoBreak(soma, i) ==
    IF i > Len(soma) THEN <<>>
    ELSE IF RLt(Zero, soma[i - 1].valor)
         THEN <<[de |-> soma[i - 1].chave, para |-> soma[i].chave,
                 taxa |-> Crescimento(soma[i].valor, soma[i - 1].valor)]>>
              \o CrescimentoAnoAAnoBreak(soma, i + 1)
         ELSE <<>>

RECURSIVE CrescimentoAnoAAno(_, _)
\* the loop for i in range(1, len(soma_por_ano)), from position i on
CrescimentoAnoAAno(soma, i) ==
    IF i > Len(soma) THEN <<>>
    ELSE (IF RLt(Zero, soma[i - 1].valor)
          THEN <<[de |-> soma[i - 1].chave, para |-> soma[i].chave,
                  taxa |-> Crescimento(soma[i].valor, soma[i - 1].valor)]>>
          ELSE <<>>)
         \o CrescimentoAnoAAno(soma, i + 1)

\* Series.min() / Series.max() over the non-null values (NaN when none)
MinOf(col) ==
    IF NotNull(col) = <<>> THEN Null
    ELSE LET nn == NotNull(col)
         IN nn[CHOOSE i \in 1..Len(nn) : \A h \in 1..Len(nn) : ~RLt(nn[h], nn[i])]

MaxOf(col) ==
    IF NotNull(col) = <<>> THEN Null
    ELSE LET nn == NotNull(col)
         IN nn[CHOOSE i \in 1..Len(nn) : \A h \in 1..Len(nn) : ~RLt(nn[i], nn[h])]

\* (df['valor'] < 0).sum()
Negativos(col) == Len(SelectSeq(col, LAMBDA c : ~IsNull(c) /\ RLt(c, Zero)))

\* df.sort_values('data'): ascending, NaT last; rows with equal dates keep
\* their order (insertion sort below numpy's small-array threshold)
SortByData(cols, t) ==
    LET j == Idx(cols, "data")
        Before(a, b) == ~IsNull(a[j]) /\ (IsNull(b[j]) \/ a[j].n < b[j].n)
        RECURSIVE Ins(_, _)
        Ins(sorted, r) ==
            IF sorted = <<>> THEN <<r>>
            ELSE IF Before(r, Head(sorted)) THEN <<r>> \o sorted
                 ELSE <<Head(sorted)>> \o Ins(Tail(sorted), r)
        RECURSIVE Go(_, _)
        Go(acc, i) == IF i > Len(t) THEN acc ELSE Go(Ins(acc, t[i]), i + 1)
    IN Go(<<>>, 1)

(* -------------------------------- state ------------------------------- *)
NoStats ==
    [registros |-> 0, total_anos |-> 0, media |-> Null, minimo |-> Null,
     maximo |-> Null, negativos |-> 0, soma |-> Null]

NoReport == [gerado |-> FALSE, crescimento |-> Null, top_anos |-> <<>>]

\* limits of the two rankings of processar_dados and of the report's ranking
TopAnos == 5

TopMeses == 3

TopAnosRelatorio == 3

InitRest ==
    /\ pc = "ler"
    /\ colunas = <<>>
    /\ tipos = <<>>
    /\ df = <<>>
    /\ secoes = {}
    /\ estatisticas = NoStats
    /\ crescimento_total = Null
    /\ crescimentos = <<>>
    /\ top_anos = <<>>
    /\ top_meses = <<>>
    /\ relatorio = NoReport
    /\ arquivos = {}
    /\ falhas = {}
    /\ invocadas = {}
    /\ retorno = "pendente"
    /\ banner = ""
    /\ excecao = "none"

Init ==
    /\ arquivo \in GeneralFiles \cup RankFiles \cup BadFiles
    /\ InitRest

(* ------------------------- processar_dados ---------------------------- *)
\* step 1 without the return in the except branches
LerSemRetorno ==
    /\ pc = "ler"
    /\ colunas' = arquivo.header
    /\ tipos' = ReadTipos(arquivo.header, arquivo.linhas)
    /\ df' = ReadCsv(arquivo.header, arquivo.linhas)
    /\ pc' = "colunas"
    /\ UNCHANGED <<arquivo, secoes, estatisticas, crescimento_total, crescimentos,
                   top_anos, top_meses, relatorio, arquivos, falhas, invocadas,
                   retorno, banner, excecao>>

\* step 1: read_csv inside try; both except branches return None
Ler ==
    /\ pc = "ler"
    /\ IF arquivo.estado = "ok"
       THEN /\ colunas' = arquivo.header
            /\ tipos' = ReadTipos(arquivo.header, arquivo.linhas)
            /\ df' = ReadCsv(arquivo.header, arquivo.linhas)
            /\ pc' = "colunas"
            /\ UNCHANGED retorno
       ELSE /\ retorno' = "None"
            /\ pc' = "main"
            /\ UNCHANGED <<colunas, tipos, df>>
    /\ UNCHANGED <<arquivo, secoes, estatisticas, crescimento_total, crescimentos,
                   top_anos, top_meses, relatorio, arquivos, falhas, invocadas,
                   banner, excecao>>

\* step 2: df.columns = df.columns.str.strip().str.lower()
TratarColunas ==
    /\ pc = "colunas"
    /\ colunas' = [j \in 1..Len(colunas) |-> StripLower(colunas[j])]
    /\ pc' = "nulos"
    /\ UNCHANGED <<arquivo, tipos, df, secoes, estatisticas, crescimento_total,
                   crescimentos, top_anos, top_meses, relatorio, arquivos, falhas,
                   invocadas, retorno, banner, excecao>>

\* step 3: mean fill of the numeric columns
TratarValoresNulos ==
    /\ pc = "nulos"
    /\ df' = TratarNulos(tipos, df)
    /\ pc' = "duplicatas"
    /\ UNCHANGED <<arquivo, colunas, tipos, secoes, estatisticas, crescimento_total,
                   crescimentos, top_anos, top_meses, relatorio, arquivos, falhas,
                   invocadas, retorno, banner, excecao>>

\* step 4: drop_duplicates when duplicated().sum() > 0
RemoverDuplicatas ==
    /\ pc = "duplicatas"
    /\ df' = IF \E i \in 1..Len(df) : Duplicated(df, i) THEN DropDuplicates(df) ELSE df
    /\ pc' = "padronizar"
    /\ UNCHANGED <<arquivo, colunas, tipos, secoes, estatisticas, crescimento_total,
                   crescimentos, top_anos, top_meses, relatorio, arquivos, falhas,
                   invocadas, retorno, banner, excecao>>

\* step 5: type coercion and derived columns
PadronizarDados ==
    /\ pc = "padronizar"
    /\ LET r == Padronizar(colunas, tipos, df)
       IN /\ colunas' = r.cols
          /\ tipos' = r.tps
          /\ df' = r.t
    /\ pc' = "analise"
    /\ UNCHANGED <<arquivo, secoes, estatisticas, crescimento_total, crescimentos,
                   top_anos, top_meses, relatorio, arquivos, falhas, invocadas,
                   retorno, banner, excecao>>

\* step 6 without the test df['valor'].notna().any()
AnaliseSemTesteDeNulos ==
    /\ pc = "analise"
    /\ IF HasCol(colunas, "valor")
       THEN LET v == Col(colunas, df, "valor")
            IN /\ estatisticas' =
                    [registros  |-> Len(df),
                     total_anos |-> IF HasCol(colunas, "ano")
                                    THEN Len(AnosUnicos(colunas, df)) ELSE 0,
                     media      |-> Mean(v),
                     minimo     |-> MinOf(v),
                     maximo     |-> MaxOf(v),
                     negativos  |-> Negativos(v),
                     soma       |-> SumSeq(v)]
               /\ secoes' = secoes \cup {"ESTATISTICAS GERAIS"}
                     \cup (IF HasCol(colunas, "ano") THEN {"ESTATISTICAS POR ANO"} ELSE {})
                     \cup (IF HasCol(colunas, "mes_nome") THEN {"ESTATISTICAS POR MES"} ELSE {})
       ELSE UNCHANGED <<estatisticas, secoes>>
    /\ pc' = "tendencias"
    /\ UNCHANGED <<arquivo, colunas, tipos, df, crescimento_total, crescimentos,
                   top_anos, top_meses, relatorio, arquivos, falhas, invocadas,
                   retorno, banner, excecao>>

\* step 6: general, per-year and per-month statistics
AnaliseEstatistica ==
    /\ pc = "analise"
    /\ IF HasCol(colunas, "valor") /\ NotNull(Col(colunas, df, "valor")) # <<>>
       THEN LET v == Col(colunas, df, "valor")
            IN /\ estatisticas' =
                    [registros  |-> Len(df),
                     total_anos |-> IF HasCol(colunas, "ano")
                                    THEN Len(AnosUnicos(colunas, df)) ELSE 0,
                     media      |-> Mean(v),
                     minimo     |-> MinOf(v),
                     maximo     |-> MaxOf(v),
                     negativos  |-> Negativos(v),
                     soma       |-> SumSeq(v)]
               /\ secoes' = secoes \cup {"ESTATISTICAS GERAIS"}
                     \cup (IF HasCol(colunas, "ano") THEN {"ESTATISTICAS POR ANO"} ELSE {})
                     \cup (IF HasCol(colunas, "mes_nome") THEN {"ESTATISTICAS POR MES"} ELSE {})
       ELSE UNCHANGED <<estatisticas, secoes>>
    /\ pc' = "tendencias"
    /\ UNCHANGED <<arquivo, colunas, tipos, df, crescimento_total, crescimentos,
                   top_anos, top_meses, relatorio, arquivos, falhas, invocadas,
                   retorno, banner, excecao>>

\* soma_primeiro > 0: total growth between the first and the last year
CrescimentoTotal(soma) ==
    IF Len(soma) >= 2 /\ RLt(Zero, soma[1].valor)
    THEN Crescimento(soma[Len(soma)].valor, soma[1].valor)
    ELSE Null

\* step 7: growth and rankings
CalcularTendencias ==
    /\ pc = "tendencias"
    /\ IF HasCol(colunas, "valor") /\ HasCol(colunas, "ano")
       THEN LET soma == SomaPorAno(colunas, df)
                dois == Len(AnosUnicos(colunas, df)) >= 2
            IN /\ crescimento_total' = IF dois THEN CrescimentoTotal(soma) ELSE Null
               /\ crescimentos' = IF dois THEN CrescimentoAnoAAno(soma, 2) ELSE <<>>
               /\ top_anos' = NLargest(soma, TopAnos)
               /\ top_meses' = IF HasCol(colunas, "mes_nome")
                               THEN NLargest(MediaPorMes(colunas, df), TopMeses)
                               ELSE <<>>
               /\ secoes' = secoes
                     \cup (IF dois /\ ~IsNull(CrescimentoTotal(soma))
                           THEN {"CRESCIMENTO TOTAL"} ELSE {})
                     \cup (IF dois THEN {"CRESCIMENTO ANO A ANO"} ELSE {})
                     \cup {"TOP 5 ANOS"}
                     \cup (IF HasCol(colunas, "mes_nome") THEN {"TOP 3 MESES"} ELSE {})
       ELSE UNCHANGED <<crescimento_total, crescimentos, top_anos, top_meses, secoes>>
    /\ pc' = "salvar"
    /\ UNCHANGED <<arquivo, colunas, tipos, df, estatisticas, relatorio, arquivos,
                   falhas, invocadas, retorno, banner, excecao>>

\* step 8: sort, to_csv and to_excel inside one try; any failure returns None
SalvarArquivo ==
    /\ pc = "salvar"
    /\ invocadas' = invocadas \cup {"processados"}
    /\ \E resultado \in {"ok", "csv", "xlsx"} :
          /\ df' = IF HasCol(colunas, "data") THEN SortByData(colunas, df) ELSE df
          /\ arquivos' = arquivos \cup (CASE resultado = "ok"   -> {"csv", "xlsx"}
                                          [] resultado = "xlsx" -> {"csv"}
                                          [] OTHER              -> {})
          /\ falhas' = IF resultado = "ok" THEN falhas ELSE falhas \cup {resultado}
          /\ retorno' = IF resultado = "ok" THEN "df" ELSE "None"
    /\ pc' = "main"
    /\ UNCHANGED <<arquivo, colunas, tipos, secoes, estatisticas, crescimento_total,
                   crescimentos, top_anos, top_meses, relatorio, banner, excecao>>

(* --------------------- gerar_relatorio_completo ----------------------- *)
\* the columns the report text reads with df[...]
ColunasRelatorio == {"data", "ano", "mes_ano", "valor", "mes_nome"}

\* sorted(df['ano'].unique()): unique() keeps NaN, and a NaN that comes last
\* (the table is sorted by data, NaT last) stays last in sorted()
AnosUnicosRelatorio(cols, t) ==
    LET anos == AnosUnicos(cols, t)
    IN [h \in 1..Len(anos) |-> Int2Num(anos[h])]
       \o (IF \E i \in 1..Len(t) : IsNull(t[i][Idx(cols, "ano")]) THEN <<Null>> ELSE <<>>)

\* the report's "Crescimento Total" line; df[df['ano'] == NaN] selects no row
CrescimentoRelatorio(cols, t) ==
    LET anos == AnosUnicosRelatorio(cols, t)
        soma_primeiro == SumSeq(ValoresDe(cols, t, "ano", anos[1]))
        soma_ultimo == IF IsNull(anos[Len(anos)]) THEN Zero
                       ELSE SumSeq(ValoresDe(cols, t, "ano", anos[Len(anos)]))
    IN IF Len(anos) >= 2 /\ RLt(Zero, soma_primeiro)
       THEN Crescimento(soma_ultimo, soma_primeiro)
       ELSE Null

\* (df['ano'] // 10) * 10
Decada(c) == IF IsNull(c) THEN Null ELSE Int2Num((c.n \div 10) * 10)

GerarRelatorioCompleto ==
    /\ pc = "main"
    /\ retorno = "df"
    /\ invocadas' = invocadas \cup {"relatorio"}
    /\ IF df = <<>>
       THEN \* df.empty: return None
            /\ pc' = "exportar"
            /\ UNCHANGED <<colunas, tipos, df, relatorio, arquivos, falhas, excecao>>
       ELSE IF \E c \in ColunasRelatorio : ~HasCol(colunas, c)
       THEN \* KeyError raised while the text is rendered, outside any try
            /\ excecao' = "KeyError"
            /\ pc' = "crash"
            /\ UNCHANGED <<colunas, tipos, df, relatorio, arquivos, falhas>>
       ELSE /\ relatorio' = [gerado      |-> TRUE,
                             crescimento |-> CrescimentoRelatorio(colunas, df),
                             top_anos    |-> NLargest(SomaPorAno(colunas, df), TopAnosRelatorio)]
            /\ colunas' = colunas \o <<"decada">>
            /\ tipos' = tipos \o <<"number">>
            /\ df' = [i \in 1..Len(df) |-> df[i] \o <<Decada(df[i][Idx(colunas, "ano")])>>]
            /\ \E escrito \in BOOLEAN :
                  /\ arquivos' = IF escrito THEN arquivos \cup {"relatorio"} ELSE arquivos
                  /\ falhas' = IF escrito THEN falhas ELSE falhas \cup {"relatorio"}
            /\ pc' = "exportar"
            /\ UNCHANGED excecao
    /\ UNCHANGED <<arquivo, secoes, estatisticas, crescimento_total, crescimentos,
                   top_anos, top_meses, retorno, banner>>

(* ----------------- exportar_estatisticas_detalhadas ------------------- *)
\* the columns the two aggregations read
ColunasEstatisticas == {"ano", "valor", "mes_nome"}

ExportarEstatisticasDetalhadas ==
    /\ pc = "exportar"
    /\ invocadas' = invocadas \cup {"estatisticas"}
    /\ IF df = <<>> \/ \E c \in ColunasEstatisticas : ~HasCol(colunas, c)
       THEN \* df.empty, or a KeyError caught by the try: nothing is written
            UNCHANGED <<arquivos, falhas>>
       ELSE \E resultado \in {"ok", "stats_ano", "stats_mes"} :
               /\ arquivos' = arquivos \cup (CASE resultado = "ok" -> {"stats_ano", "stats_mes"}
                                               [] resultado = "stats_mes" -> {"stats_ano"}
                                               [] OTHER -> {})
               /\ falhas' = IF resultado = "ok" THEN falhas ELSE falhas \cup {resultado}
    /\ pc' = "resumo"
    /\ UNCHANGED <<arquivo, colunas, tipos, df, secoes, estatisticas, crescimento_total,
                   crescimentos, top_anos, top_meses, relatorio, retorno, banner, excecao>>

(* -------------------------------- main -------------------------------- *)
\* the summary after both exporters: reads dados_processados['valor'] and
\* dados_processados['data'], then prints the success banner
MainResumo ==
    /\ pc = "resumo"
    /\ IF HasCol(colunas, "valor") /\ HasCol(colunas, "data")
       THEN /\ banner' = "SUCESSO"
            /\ pc' = "fim"
            /\ UNCHANGED excecao
       ELSE /\ excecao' = "KeyError"
            /\ pc' = "crash"
            /\ UNCHANGED banner
    /\ UNCHANGED <<arquivo, colunas, tipos, df, secoes, estatisticas, crescimento_total,
                   crescimentos, top_anos, top_meses, relatorio, arquivos, falhas,
                   invocadas, retorno>>

\* the else branch: processar_dados returned None
MainInterrompido ==
    /\ pc = "main"
    /\ retorno = "None"
    /\ banner' = "INTERROMPIDO"
    /\ pc' = "fim"
    /\ UNCHANGED <<arquivo, colunas, tipos, df, secoes, estatisticas, crescimento_total,
                   crescimentos, top_anos, top_meses, relatorio, arquivos, falhas,
                   invocadas, retorno, excecao>>

Next ==
    \/ Ler
    \/ TratarColunas
    \/ TratarValoresNulos
    \/ RemoverDuplicatas
    \/ PadronizarDados
    \/ AnaliseEstatistica
    \/ CalcularTendencias
    \/ SalvarArquivo
    \/ GerarRelatorioCompleto
    \/ ExportarEstatisticasDetalhadas
    \/ MainResumo
    \/ MainInterrompido

Spec == Init /\ [][Next]_vars

(* ------------------------------ properties ---------------------------- *)
\* positions of processar_dados after step 5 and before the table is saved
AposLimpeza == {"analise", "tendencias", "salvar"}

\* the values of column c of the current table
ValoresColuna(c) == IF HasCol(colunas, c) THEN {df[i][Idx(colunas, c)] : i \in 1..Len(df)} ELSE {}

\* C1: after the Cleaner has run all its steps no two rows of the table are
\* equal across all columns (a second duplicate removal would remove no row).
C1_NoDuplicateRows ==
    pc \in AposLimpeza => (\A i \in 1..Len(df) : ~Duplicated(df, i))

\* C2: the null-fill step turns every numeric column holding both nulls and
\* values into a column without nulls whose non-null cells are unchanged, whose
\* filled cells are all equal and whose sum satisfies
\* sum_after * count_nonnull_before = sum_nonnull_before * row_count; a
\* non-numeric column is left as it was.
C2_MeanFillKeepsMean ==
    [][pc = "nulos" =>
        \A j \in 1..Len(tipos) :
            LET antes  == [i \in 1..Len(df) |-> df[i][j]]
                depois == [i \in 1..Len(df') |-> df'[i][j]]
            IN /\ Len(df') = Len(df)
               /\ (tipos[j] # "number" => depois = antes)
               /\ (tipos[j] = "number" /\ NotNull(antes) # <<>> /\ NotNull(antes) # antes
                     => /\ \A i \in 1..Len(antes) : ~IsNull(antes[i]) => depois[i] = antes[i]
                        /\ \A i \in 1..Len(antes) : ~IsNull(depois[i])
                        /\ \A i, h \in 1..Len(antes) :
                              IsNull(antes[i]) /\ IsNull(antes[h]) => depois[i] = depois[h]
                        /\ RMul(SumSeq(depois), Int2Num(Count(antes)))
                              = RMul(SumSeq(antes), Int2Num(Len(antes))))]_vars

\* C2 witness: the fill has run on a numeric column that held a null and two
\* different values, and on a text column that still holds its null.
C2_Witness ==
    /\ pc = "duplicatas"
    /\ \E j \in 1..Len(tipos) :
          /\ tipos[j] = "number"
          /\ \E i \in 1..Len(df) : arquivo.linhas[i][j] = ""
          /\ \E i, h \in 1..Len(df) : arquivo.linhas[i][j] = "100" /\ arquivo.linhas[h][j] = "-50"
          /\ \A i \in 1..Len(df) : ~IsNull(df[i][j])
    /\ \E j \in 1..Len(tipos) :
          /\ tipos[j] = "object"
          /\ \E i \in 1..Len(df) : IsNull(df[i][j])

\* the number of distinct years of the table
NumAnos == Cardinality({c \in ValoresColuna("ano") : ~IsNull(c)})

\* the summed valor of the rows of year a
SomaDoAno(a) == SumSeq(ValoresDe(colunas, df, "ano", a))

\* C3 as stated: the number of year-over-year entries equals
\* (number of distinct years) - 1, and is 0 with fewer than 2 distinct years.
C3_Original ==
    pc = "salvar" /\ HasCol(colunas, "valor") /\ HasCol(colunas, "ano")
        => Len(crescimentos) = (IF NumAnos >= 2 THEN NumAnos - 1 ELSE 0)

\* C3 amended: the number of year-over-year entries equals the number of
\* adjacent pairs of years whose earlier year has a summed valor > 0; it is at
\* most (number of distinct years) - 1, and 0 with fewer than 2 distinct years.
C3_Amended ==
    pc = "salvar" /\ HasCol(colunas, "valor") /\ HasCol(colunas, "ano")
        => LET anos == {c \in ValoresColuna("ano") : ~IsNull(c)}
               anteriores == {a \in anos : /\ \E b \in anos : a.n < b.n
                                           /\ RLt(Zero, SomaDoAno(a))}
           IN /\ Len(crescimentos) = Cardinality(anteriores)
              /\ {crescimentos[h].de : h \in 1..Len(crescimentos)} = anteriores
              /\ (NumAnos < 2 => crescimentos = <<>>)
              /\ (NumAnos >= 2 => Len(crescimentos) <= NumAnos - 1)

\* C3 witness: three or more years, one pair reported and one pair skipped.
C3_Witness ==
    /\ pc = "salvar"
    /\ HasCol(colunas, "ano")
    /\ NumAnos >= 3
    /\ Len(crescimentos) >= 1
    /\ Len(crescimentos) < NumAnos - 1

\* no later entry of a ranking is greater than an earlier one (a comparison
\* with NaN is false)
NaoCrescente(rk) ==
    \A a, b \in 1..Len(rk) :
        a < b /\ ~IsNull(rk[a].valor) /\ ~IsNull(rk[b].valor) => ~RLt(rk[a].valor, rk[b].valor)

ChavesDe(rk) == {rk[h].chave : h \in 1..Len(rk)}

\* C4: the top-years ranking has at most 5 entries and the top-months ranking
\* at most 3, every listed year is the ano of some row and every listed month
\* the mes_nome of some row, and the entries are in non-increasing order of the
\* ranked value; the same holds of the report's top-years list.
C4_RankingsBounded ==
    pc \notin {"ler", "colunas", "nulos", "duplicatas", "padronizar", "analise", "tendencias"}
        => /\ Len(top_anos) <= 5
           /\ Len(top_meses) <= 3
           /\ Len(relatorio.top_anos) <= 5
           /\ ChavesDe(top_anos) \subseteq ValoresColuna("ano")
           /\ ChavesDe(relatorio.top_anos) \subseteq ValoresColuna("ano")
           /\ ChavesDe(top_meses) \subseteq ValoresColuna("mes_nome")
           /\ NaoCrescente(top_anos)
           /\ NaoCrescente(top_meses)
           /\ NaoCrescente(relatorio.top_anos)

\* C4 witness: more than 5 years and more than 3 months, both rankings full.
C4_Witness ==
    /\ pc = "salvar"
    /\ NumAnos > 5
    /\ Cardinality(ValoresColuna("mes_nome")) > 3
    /\ Len(top_anos) = 5
    /\ Len(top_meses) = 3

\* the input of the scenario: header data;valor and three rows
Cenario ==
    [estado |-> "ok", header |-> <<"data", "valor">>,
     linhas |-> <<(<<"01/01/2020", "100">>), (<<"01/01/2020", "100">>), (<<"15/06/2021", "-50">>)>>]

\* C5: for the scenario input the cleaned table has exactly 2 rows with ano
\* values {2020, 2021}, the global sum of valor is 50, one value is negative
\* and the total growth from 2020 to 2021 is -150%.
C5_Scenario ==
    arquivo = Cenario /\ pc = "salvar"
        => /\ Len(df) = 2
           /\ ValoresColuna("ano") = {Int2Num(2020), Int2Num(2021)}
           /\ estatisticas.soma = Int2Num(50)
           /\ estatisticas.negativos = 1
           /\ crescimento_total = Int2Num(-150)
           /\ "CRESCIMENTO TOTAL" \in secoes

\* C5 witness: the scenario input has been cleaned and analysed.
C5_Witness == arquivo = Cenario /\ pc = "salvar" /\ Len(df) = 2

\* C6: when reading the input fails, processar_dados returns None before any
\* cleaning or writing, main takes the interruption branch, none of the five
\* output files is written and neither writer is invoked.
C6_MissingInput ==
    arquivo.estado # "ok"
        => /\ pc \in {"ler", "main", "fim"}
           /\ (pc # "ler" => retorno = "None")
           /\ (pc = "fim" => banner = "INTERROMPIDO")
           /\ arquivos = {}
           /\ invocadas = {}
           /\ secoes = {}
           /\ colunas = <<>> /\ df = <<>>
           /\ excecao = "none"

\* C6 witness: main has ended after a failed read.
C6_Witness == arquivo.estado = "ausente" /\ pc = "fim" /\ banner = "INTERROMPIDO"

\* C7: for every table the Loader accepts no exception propagates out of the
\* stages or of main.
C7_NoExceptionEscapes == arquivo.estado = "ok" => (pc # "crash" /\ excecao = "none")

\* C8: once the processed CSV is written, a failure of any other write (the
\* spreadsheet, the report, a statistics CSV) does not keep the remaining
\* export operations from being attempted.
C8_IndependentBoundaries ==
    pc = "fim" /\ falhas # {} /\ "csv" \notin falhas
        => {"processados", "relatorio", "estatisticas"} \subseteq invocadas

\* C9: when every valor is null after coercion and ano and mes_nome exist, no
\* analysis section (statistics, growth, rankings) is emitted and no error is
\* raised.
C9_AllNullOmitsSections ==
    (/\ pc = "salvar"
     /\ HasCol(colunas, "valor") /\ HasCol(colunas, "ano") /\ HasCol(colunas, "mes_nome")
     /\ \A c \in ValoresColuna("valor") : IsNull(c))
        => (secoes = {} /\ top_anos = <<>> /\ top_meses = <<>> /\ excecao = "none")

\* C10: for a header-only input the Loader yields a zero-row table, no
\* analysis section is emitted, the processed CSV is written and the table is
\* returned when its writes succeed, and the report writer and the statistics
\* writer, once invoked, write nothing.
C10_HeaderOnly ==
    arquivo.estado = "ok" /\ arquivo.linhas = <<>>
        => /\ df = <<>>
           /\ (pc # "ler" => Len(colunas) = Len(arquivo.header))
           /\ secoes = {} /\ estatisticas = NoStats
           /\ crescimentos = <<>> /\ top_anos = <<>> /\ top_meses = <<>>
           /\ (pc \notin {"ler", "colunas", "nulos", "duplicatas", "padronizar",
                          "analise", "tendencias", "salvar"} /\ falhas = {}
                 => "csv" \in arquivos /\ retorno = "df")
           /\ arquivos \cap {"relatorio", "stats_ano", "stats_mes"} = {}
           /\ ~relatorio.gerado
           /\ (pc \in {"exportar", "resumo"} => excecao = "none")
           /\ (pc = "resumo" => {"relatorio", "estatisticas"} \subseteq invocadas)

\* C10 witness: both writers have been invoked on the empty table after the
\* processed CSV was written.
C10_Witness ==
    /\ arquivo.estado = "ok" /\ arquivo.linhas = <<>>
    /\ pc = "resumo"
    /\ arquivos = {"csv", "xlsx"}
    /\ retorno = "df"
    /\ {"relatorio", "estatisticas"} \subseteq invocadas

\* the years of the table, and the pairs of years with no year between them
AnosDaTabela == {c \in ValoresColuna("ano") : ~IsNull(c)}

Adjacentes(a, b) ==
    /\ a \in AnosDaTabela /\ b \in AnosDaTabela
    /\ a.n < b.n
    /\ ~\E c \in AnosDaTabela : a.n < c.n /\ c.n < b.n

\* C11: with the years in ascending order, the year-over-year list holds an
\* entry for the adjacent pair (previous, current) exactly when the previous
\* year's summed valor is > 0, its value is
\* (current sum - previous sum) / previous sum * 100, a pair whose previous sum
\* is <= 0 has no entry at all, and the entries follow the order of the years.
C11_YearOverYear ==
    pc = "salvar" /\ HasCol(colunas, "valor") /\ HasCol(colunas, "ano")
        => /\ \A a, b \in AnosDaTabela :
                Adjacentes(a, b) =>
                    ((\E h \in 1..Len(crescimentos) :
                          crescimentos[h].de = a /\ crescimentos[h].para = b)
                      <=> RLt(Zero, SomaDoAno(a)))
           /\ \A h \in 1..Len(crescimentos) :
                /\ Adjacentes(crescimentos[h].de, crescimentos[h].para)
                /\ RMul(crescimentos[h].taxa, SomaDoAno(crescimentos[h].de))
                     = RMul(RSub(SomaDoAno(crescimentos[h].para),
                                 SomaDoAno(crescimentos[h].de)), Int2Num(100))
           /\ \A h, g \in 1..Len(crescimentos) :
                h < g => crescimentos[h].de.n < crescimentos[g].de.n

\* C11 witness: a pair skipped because its previous sum is <= 0, followed by
\* a pair that is reported.
C11_Witness ==
    /\ pc = "salvar"
    /\ HasCol(colunas, "valor") /\ HasCol(colunas, "ano")
    /\ \E a, b, c \in AnosDaTabela :
          /\ Adjacentes(a, b) /\ Adjacentes(b, c)
          /\ ~RLt(Zero, SomaDoAno(a))
          /\ RLt(Zero, SomaDoAno(b))
          /\ ~\E h \in 1..Len(crescimentos) : crescimentos[h].de = a
          /\ \E h \in 1..Len(crescimentos) :
                crescimentos[h].de = b /\ crescimentos[h].para = c

====
